---- MODULE Spec2Model ----
(***************************************************************************)
(* OneWay dashboard: the bill synchronisation and local-state engine of    *)
(* pages/Dashboard.jsx (src/unnamed/part_003), the payment modal           *)
(* (components/QRModal.jsx) and the photo-report surfaces                  *)
(* (pages/DisasterSentinel.jsx, pages/Sentinel.jsx,                        *)
(* components/DisasterChatbot.jsx).                                        *)
(*                                                                         *)
(* React state is modelled by one variable per useState cell.  A handler   *)
(* and the effects its state updates trigger (auto-fetch, persist, chart)  *)
(* form one atomic step; every awaited network call is a message in flight *)
(* whose completion is a separate step.  State updates made in one         *)
(* continuation are applied as one batch (React 18 automatic batching).    *)
(***************************************************************************)
EXTENDS Integers, Sequences, FiniteSets, TLC

VARIABLES
  \* ---- Dashboard component state (useState cells)
  accounts,         \* list of account ids shown on the dashboard
  billData,         \* map account id -> bill snapshot
  loadingAccounts,  \* map account id -> BOOLEAN (per-card spinner)
  initialLoading,   \* the "Loading your accounts..." placeholder
  comparisonData, trendData, trendLines,
  selectedAccount, isQRModalOpen, qrCode,
  \* ---- requests in flight, with the values their continuation closes over
  profileReq,       \* loadAccounts: "idle" | "pending"
  fetches,          \* account id -> number of fetchBill calls outstanding
  chartReqs,        \* sequence of [accs, bills]: getChartData calls outstanding
  removeReqs,       \* set of [id, accs, bills]: removeAccount calls outstanding
  addReqs,          \* set of account ids whose addAccount call is outstanding
  initReqs,         \* account id -> number of payments/initiate calls outstanding
  \* ---- environment
  cache,            \* localStorage[LAYOUT_CACHE_KEY]
  now,              \* Date.now(), in hours
  cachedLayout,     \* what loadCachedLayout() returned at mount
  phase,            \* "rendered": first render done, effects not yet run; "live"
  \* ---- photo-report surfaces
  surface,          \* which surface: "disaster" | "sentinel" | "chatbot"
  selectedImage, imagePreview, isAnalyzing, analysisResult, deviceLocation,
  botMessage,       \* chatbot: the latest bot message
  geoPending,       \* getCurrentPosition has not called back yet
  previewReads,     \* images a preview FileReader is reading
  reader,           \* the FileReader of a submit: [img, coords], or NoReq
  analyzeReq,       \* the analyze call in flight: [img, coords], or NoReq
  incident,         \* analysisResult.incident (analysisResult.report in Sentinel)
  isEditing,        \* the result is being edited
  editedIncident,   \* the edit buffer (editedReport in Sentinel)
  \* ---- bookkeeping for the properties
  removed,          \* ids removed locally and not added again since
  fetched,          \* ids whose snapshot was stored by a fetch of this page load
  fallbackAccs,     \* id -> the object of a listed account that the add
                    \* fallback built during this page load
  confirmed,        \* ids whose payment was confirmed, no fetch of them
                    \* having been started since
  obtainedAt,       \* id -> the hour its latest snapshot was obtained, 0 if
                    \* none was
  \* ---- ProfilesContext
  profileLinks,     \* <<profile id, account id>> pairs linkAccount has added
  user,             \* AuthContext: the user who is logged in
  scope,            \* what this specification follows besides the bill
                    \* fetches: a subset of {"charts", "qr", "add", "paid",
                    \* "age"} (chart requests, payment sessions, added
                    \* objects and links, confirmed payments, the hour a
                    \* snapshot was obtained)
  ops               \* number of user actions still allowed (bounded)

\* The variables that only record what has happened.
bookVars == <<removed, fetched, fallbackAccs, profileLinks, confirmed, obtainedAt>>

dashVars == <<accounts, billData, loadingAccounts, initialLoading,
              comparisonData, trendData, trendLines,
              selectedAccount, isQRModalOpen, qrCode,
              profileReq, fetches, chartReqs, removeReqs, addReqs, initReqs,
              cache, cachedLayout, phase, removed, fetched, fallbackAccs,
              profileLinks, confirmed, obtainedAt, user, scope, ops>>
photoVars == <<surface, selectedImage, imagePreview, isAnalyzing, analysisResult,
               deviceLocation, botMessage, geoPending, previewReads, reader,
               analyzeReq, incident, isEditing, editedIncident>>
vars == <<dashVars, photoVars, now>>

----------------------------------------------------------------------------
\* Bounds of the model.
MaxOps == 2         \* user actions per behaviour
MaxFetch == 2       \* outstanding fetchBill calls per account
MaxChart == 2       \* outstanding getChartData calls
AddOps == 2         \* user actions per behaviour when added accounts are followed
ChartOps == 2       \* user actions per behaviour when chart requests are followed
BrokenOps == 2      \* user actions per behaviour on a storage that cannot be written
PayOps == 2         \* user actions per behaviour when confirmed payments are followed
LoginOps == 2       \* logins per behaviour
AgeOps == 3         \* page reloads per behaviour when the age of the snapshots is followed
LiveOps == 2        \* user actions per behaviour when every call completes
CacheOps == 2       \* page reloads per behaviour when the clock runs
MaxTime == 37       \* hours the clock runs
TickHours == 12     \* hours between two observations of the clock

\* Program constants.
FreshHours == 24    \* 24 * 60 * 60 * 1000 ms, in hours
Absent == -1        \* an object property that is undefined

Ids == {"A", "B"}
NoAccount == "none"
service_type(a) == IF a = "A" THEN "kseb" ELSE "kwa"

EmptyMap == [x \in {} |-> 0]

\* A bill snapshot. error = FALSE and units_consumed = Absent stand for the
\* property not being present on the object.
Snap(st, amt, err, units) ==
  [status |-> st, amount_due |-> amt, error |-> err, units_consumed |-> units]

\* What POST utilities/fetch-bill may answer: {status, amount_due, units_consumed?}.
BillResponses ==
  { Snap("unpaid", 500, FALSE, 120),
    Snap("paid", 0, FALSE, Absent) }


\* The snapshot fetchBillForAccount stores when the call throws.
ErrorSnapshot == Snap("unknown", 0, TRUE, Absent)

\* ---- plain-object and array helpers -------------------------------------
Range(seq) == {seq[i] : i \in 1..Len(seq)}

\* { ...p, [a]: s }
SetKey(m, a, s) == [x \in DOMAIN m \cup {a} |-> IF x = a THEN s ELSE m[x]]

\* const copy = { ...prev }; delete copy[a]
DeleteKey(m, a) == [x \in DOMAIN m \ {a} |-> m[x]]

\* prev.filter(x => x.id !== a)
RemoveId(accs, a) == SelectSeq(accs, LAMBDA x : x # a)

\* loadingAccounts[a], undefined read as false
IsLoading(load, a) == a \in DOMAIN load /\ load[a]

\* ---- the layout cache ----------------------------------------------------
\* localStorage[LAYOUT_CACHE_KEY]: nothing stored, text JSON.parse rejects, a
\* stored record, a storage that throws on every access, or a stored record
\* on a storage that is full (getItem answers, setItem throws).
NoRecord == [kind |-> "none", accounts |-> <<>>, billData |-> EmptyMap, timestamp |-> 0]
Garbage  == [kind |-> "garbage", accounts |-> <<>>, billData |-> EmptyMap, timestamp |-> 0]
Denied   == [kind |-> "denied", accounts |-> <<>>, billData |-> EmptyMap, timestamp |-> 0]
Null     == [kind |-> "null", accounts |-> <<>>, billData |-> EmptyMap, timestamp |-> 0]

Record(accs, bills, t) ==
  [kind |-> "json", accounts |-> accs, billData |-> bills, timestamp |-> t]

\* The same record on a storage whose quota is used up.
Full(accs, bills, t) ==
  [kind |-> "full", accounts |-> accs, billData |-> bills, timestamp |-> t]

\* The kinds for which getItem answers with text that JSON.parse accepts.
Readable == {"json", "full"}

\* The kinds for which setItem throws.
Unwritable == {"denied", "full"}

\* JSON.parse of the stored text.
Parsed(stored) == Record(stored.accounts, stored.billData, stored.timestamp)

loadAnyAge(stored, t) ==
  IF stored.kind \in Readable /\ stored.timestamp # 0 THEN Parsed(stored) ELSE Null

loadCachedLayout(stored, t) ==
  IF /\ stored.kind \in Readable
     /\ stored.timestamp # 0
     /\ t - stored.timestamp < FreshHours
  THEN Parsed(stored)
  ELSE Null

\* A save that never writes.
saveNothing(stored, accs, bills, t) == stored

\* What is left of the storage when the exception of setItem escapes.
Crashed == [kind |-> "crashed", accounts |-> <<>>, billData |-> EmptyMap, timestamp |-> 0]

\* A save without its try/catch.
saveOrThrow(stored, accs, bills, t) ==
  IF stored.kind \in Unwritable THEN Crashed ELSE Record(accs, bills, t)

\* setItem on a storage that throws is swallowed: nothing is written.
saveCachedLayout(stored, accs, bills, t) ==
  IF stored.kind \in Unwritable THEN stored ELSE Record(accs, bills, t)

\* ---- derived values ------------------------------------------------------
RECURSIVE SumDue(_, _)
SumDue(bills, S) ==
  IF S = {} THEN 0
  ELSE LET a == CHOOSE x \in S : TRUE
           b == bills[a]
       IN (IF b.status # "paid" /\ b.amount_due # Absent /\ b.amount_due > 0
           THEN b.amount_due ELSE 0) + SumDue(bills, S \ {a})

totalDueOf(accs, bills) ==
  IF Len(accs) = 0 THEN 0 ELSE SumDue(bills, DOMAIN bills)

unpaidCountOf(accs, bills) ==
  IF Len(accs) = 0 THEN 0
  ELSE Cardinality({a \in DOMAIN bills : bills[a].status = "unpaid"})

totalDue == totalDueOf(accounts, billData)
unpaidCount == unpaidCountOf(accounts, billData)

\* ---- UtilityCard ---------------------------------------------------------
\* The status badge of a card: billData?.status === 'paid' ? 'Paid' : 'Unpaid'.
StatusBadge(bills, a) ==
  IF a \in DOMAIN bills /\ bills[a].status = "paid" THEN "Paid" ELSE "Unpaid"

\* Whether the card offers "Pay Now".
ShowsPayNow(bills, a) == StatusBadge(bills, a) # "Paid"

\* ---- chart aggregation ---------------------------------------------------
MetaName(type) == IF type = "kseb" THEN "KSEB" ELSE "KWA"

\* billData[a.id]?.amount_due || 0
AmountOrZero(bills, a) ==
  IF a \in DOMAIN bills /\ bills[a].amount_due # Absent THEN bills[a].amount_due ELSE 0

\* [...new Set(accounts.map(a => a.service_type))]
RECURSIVE ServiceTypes(_)
ServiceTypes(accs) ==
  IF accs = <<>> THEN <<>>
  ELSE LET front == ServiceTypes(SubSeq(accs, 1, Len(accs) - 1))
           t == service_type(accs[Len(accs)])
       IN IF t \in Range(front) THEN front ELSE Append(front, t)

RECURSIVE TypeTotal(_, _, _)
TypeTotal(accs, bills, type) ==
  IF accs = <<>> THEN 0
  ELSE (IF service_type(Head(accs)) = type THEN AmountOrZero(bills, Head(accs)) ELSE 0)
       + TypeTotal(Tail(accs), bills, type)

\* The catch branch of fetchChartData: one bucket per service type of accounts.
LocalComparison(accs, bills) ==
  LET types == ServiceTypes(accs)
  IN [i \in 1..Len(types) |->
        [service |-> MetaName(types[i]), amount |-> TypeTotal(accs, bills, types[i])]]

\* No trend data is computed in the catch branch.
TrendFromBills(accs, bills) == IF DOMAIN bills = {} THEN <<>> ELSE <<"now">>

FallbackTrend(accs, bills) == <<>>

\* A field of the chart response: present with a value, or missing.
Field(v) == [present |-> TRUE, val |-> v]
Missing == [present |-> FALSE, val |-> <<>>]
OrEmpty(f) == IF f.present THEN f.val ELSE <<>>

\* What POST utilities/chart-data may answer.
ChartResponses ==
  { [comparison_data |-> Field(<<[service |-> "KSEB", amount |-> 500]>>),
     trend_data |-> Field(<<"jan">>), trend_lines |-> Field(<<"kseb">>)],
    [comparison_data |-> Field(<<>>), trend_data |-> Field(<<>>), trend_lines |-> Field(<<>>)],
    [comparison_data |-> Missing, trend_data |-> Missing, trend_lines |-> Missing] }

\* Object.keys(billData).filter(id => !loadingAccounts[id])
loadedBills(bills, load) == {a \in DOMAIN bills : ~IsLoading(load, a)}

\* The chart state one run of the chart effect works on.
ChartState == [cmp |-> comparisonData, trend |-> trendData, lines |-> trendLines,
               reqs |-> chartReqs]

\* fetchChartData up to its await, in a render with (accs, bills, load).
fetchChartData(ch, accs, bills, load) ==
  IF "charts" \notin scope THEN ch
  ELSE IF Len(accs) = 0
  THEN [ch EXCEPT !.cmp = <<>>, !.trend = <<>>, !.lines = <<>>]
  ELSE IF loadedBills(bills, load) = {}
       THEN ch
       ELSE [ch EXCEPT !.reqs = Append(@, [accs |-> accs, bills |-> bills])]

\* ---- the effects of one commit -------------------------------------------
\* An effect that fetches one account at a time.
NeedFetchFirst(accs, bills) ==
  LET lacking == {a \in Range(accs) : a \notin DOMAIN bills}
  IN IF lacking = {} THEN {} ELSE {CHOOSE a \in lacking : TRUE}

\* An effect that also retries the accounts whose snapshot is an error.
NeedFetchOrRetry(accs, bills) ==
  {a \in Range(accs) : a \notin DOMAIN bills \/ bills[a].error}

\* The accounts the auto-fetch effect starts a fetch for.
NeedFetch(accs, bills) == {a \in Range(accs) : a \notin DOMAIN bills}

\* The effects that run after a handler left (accs, bills, load, fet, stored, ch)
\* with the given dependencies changed: auto-fetch [accounts], persist
\* [accounts, billData], chart [accounts, billData, loadingAccounts]; the
\* loading flags the auto-fetch sets cause one more render and chart run.
Commit(accs, bills, load, fet, stored, ch, accCh, billCh, loadCh) ==
  LET need  == IF accCh THEN NeedFetch(accs, bills) ELSE {}
      load2 == [x \in DOMAIN load \cup need |-> IF x \in need THEN TRUE ELSE load[x]]
      fet2  == [x \in Ids |-> IF x \in need THEN fet[x] + 1 ELSE fet[x]]
      st2   == IF (accCh \/ billCh) /\ Len(accs) > 0 /\ DOMAIN bills # {}
               THEN saveCachedLayout(stored, accs, bills, now)
               ELSE stored
      ch1   == IF accCh \/ billCh \/ loadCh
               THEN fetchChartData(ch, accs, bills, load) ELSE ch
      ch2   == IF need # {} THEN fetchChartData(ch1, accs, bills, load2) ELSE ch1
  IN [load |-> load2, fetches |-> fet2, cache |-> st2, chart |-> ch2]

\* Apply the result of Commit to the variables it determines.
Apply(accs, bills, c) ==
  /\ accounts' = accs
  /\ billData' = bills
  /\ loadingAccounts' = c.load
  /\ fetches' = c.fetches
  /\ cache' = c.cache
  /\ comparisonData' = c.chart.cmp
  /\ trendData' = c.chart.trend
  /\ trendLines' = c.chart.lines
  /\ chartReqs' = c.chart.reqs
  /\ \A a \in Ids : c.fetches[a] <= MaxFetch
  /\ Len(c.chart.reqs) <= MaxChart

\* The lists GET profiles may flatten to.
ProfileLists == { <<"A", "B">>, <<"A">>, <<>> }

\* The users of the browser. The accounts A and B are in profiles of u1; u2
\* has no account.
Users == {"u1", "u2"}
ProfileListsOf(u) == IF u = "u1" THEN ProfileLists ELSE { <<>> }

NoFetches == [a \in Ids |-> 0]

\* The cards are on screen and no modal covers them.
CardsUsable == phase = "live" /\ ~initialLoading /\ ~isQRModalOpen

UserOp == ops > 0 /\ ops' = ops - 1

\* ---- mount ---------------------------------------------------------------
\* cachedLayout?.accounts || []
SeedAccounts(layout) == layout.accounts

\* An initialiser that starts billData empty whatever the layout holds.
SeedNoBills(layout) == EmptyMap

\* cachedLayout?.billData || {}
SeedBills(layout) == layout.billData

\* The useState initialisers of Dashboard, given what localStorage holds.
InitialRender(stored, t) ==
  LET layout == loadCachedLayout(stored, t)
  IN /\ cachedLayout = layout
     /\ accounts = SeedAccounts(layout)
     /\ billData = SeedBills(layout)
     /\ loadingAccounts = EmptyMap
     /\ initialLoading = (layout.kind = "null")
     /\ comparisonData = <<>>
     /\ trendData = <<>>
     /\ trendLines = <<>>
     /\ selectedAccount = NoAccount
     /\ isQRModalOpen = FALSE
     /\ qrCode = ""
     /\ profileReq = "idle"
     /\ fetches = NoFetches
     /\ chartReqs = <<>>
     /\ removeReqs = {}
     /\ addReqs = {}
     /\ initReqs = NoFetches
     /\ phase = "rendered"

\* ---- device position ------------------------------------------------------
\* The argument null of the analyze call.
NullArg == -2

\* What getCurrentPosition may report: a position on the equator included.
Positions == { [latitude |-> 10, longitude |-> 76], [latitude |-> 0, longitude |-> 76] }

\* deviceLocation = null: reading a coordinate through ?. gives undefined.
NoPosition == [latitude |-> Absent, longitude |-> Absent]

\* A call that sends the origin when a coordinate is missing.
OrZero(x) == IF x = Absent THEN 0 ELSE x

\* x || null
OrNull(x) == IF x = Absent \/ x = 0 THEN NullArg ELSE x

\* The coordinates handleAnalyze / handleSubmitImage pass to the analyze call.
CoordsSent(loc) ==
  [device_latitude |-> OrNull(loc.latitude), device_longitude |-> OrNull(loc.longitude)]

NoCoords == [device_latitude |-> NullArg, device_longitude |-> NullArg]

NoReq == [img |-> "none", coords |-> NoCoords]

\* ---- the analysed incident and its edit buffer ---------------------------
\* The result view and the edit state of the pages.
editVars == <<incident, isEditing, editedIncident>>

\* analysisResult.incident of a result that carries none.
NoIncident == [present |-> FALSE, id |-> Absent, severity |-> "", description |-> ""]

\* The incidents a successful analysis may carry: a complete one, and one
\* whose severity and description are empty.
Incidents ==
  { [present |-> TRUE, id |-> 7, severity |-> "P1", description |-> "tree"],
    [present |-> TRUE, id |-> 8, severity |-> "", description |-> ""] }

\* The incident of an answer with data.success = success.
ResponseIncidents(success) == IF success THEN Incidents ELSE {NoIncident}

\* editedIncident = null
NoEdit == [present |-> FALSE, severity |-> "", description |-> ""]

\* x || d
OrDefault(x, d) == IF x = "" THEN d ELSE x

\* The buffer handleStartEdit fills from the incident on display.
EditBuffer(inc) ==
  [present |-> TRUE, severity |-> OrDefault(inc.severity, "P3"),
   description |-> OrDefault(inc.description, "")]

\* A save that replaces the incident by the buffer, losing its other fields.
ReplaceByEdit(inc, ed) ==
  [present |-> TRUE, id |-> Absent, severity |-> ed.severity,
   description |-> ed.description]

\* { ...prev.incident, ...editedIncident }
MergeEdit(inc, ed) ==
  [present |-> TRUE, id |-> inc.id, severity |-> ed.severity,
   description |-> ed.description]

\* The useState initialisers of a photo-report surface.
PhotoIdle ==
  /\ incident = NoIncident
  /\ isEditing = FALSE
  /\ editedIncident = NoEdit
  /\ selectedImage = "none"
  /\ imagePreview = "none"
  /\ isAnalyzing = FALSE
  /\ analysisResult = "null"
  /\ deviceLocation = NoPosition
  /\ botMessage = "greeting"
  /\ previewReads = {}
  /\ reader = NoReq
  /\ analyzeReq = NoReq

\* The hour a snapshot of each account was last obtained, for an account
\* the stored record holds a snapshot of: the hour the record was written.
StoredWith(stored) ==
  [a \in Ids |-> IF a \in DOMAIN stored.billData THEN stored.timestamp ELSE 0]

\* The dashboard right after its first render, with the observers `sc`
\* followed, `stored` in localStorage and `budget` user actions to come.
DashInit(sc, stored, budget) ==
  /\ now = 1
  /\ cache = stored
  /\ InitialRender(stored, 1)
  /\ removed = {}
  /\ fetched = {}
  /\ fallbackAccs = EmptyMap
  /\ profileLinks = {}
  /\ confirmed = {}
  /\ obtainedAt = StoredWith(stored)
  /\ user = "u1"
  /\ scope = sc
  /\ ops = budget

PhotoUnused == surface = "none" /\ geoPending = FALSE /\ PhotoIdle

\* The effects of the first commit: loadAccounts is started (and raises the
\* placeholder), auto-fetch, persist and chart all run.
MountEffects ==
  /\ phase = "rendered"
  /\ LET c == Commit(accounts, billData, loadingAccounts, fetches, cache,
                     ChartState, TRUE, TRUE, TRUE)
     IN Apply(accounts, billData, c)
  /\ phase' = "live"
  /\ profileReq' = "pending"
  /\ initialLoading' = TRUE
  /\ UNCHANGED <<selectedAccount, isQRModalOpen, qrCode, removeReqs, addReqs,
                 initReqs, cachedLayout, bookVars, user, scope, ops, photoVars, now>>

\* A snapshot of `a` is obtained at hour t, by a fetch that settled or by a
\* confirmed payment.
Obtained(at, a, t) == IF "age" \in scope THEN [at EXCEPT ![a] = t] ELSE at

\* The confirmed payments no fetch has been started for in a step that takes
\* the outstanding calls from fet to fet2.
StillConfirmed(conf, fet, fet2) == {a \in conf : fet2[a] <= fet[a]}

\* ---- loadAccounts --------------------------------------------------------
LoadAccountsOk(list) ==
  /\ phase = "live" /\ profileReq = "pending"
  /\ list \in ProfileListsOf(user)
  /\ LET c == Commit(list, billData, loadingAccounts, fetches, cache,
                     ChartState, TRUE, FALSE, FALSE)
     IN Apply(list, billData, c)
  /\ profileReq' = "idle"
  /\ initialLoading' = FALSE
  /\ removed' = removed \ Range(list)
  /\ fetched' = fetched
  /\ fallbackAccs' = EmptyMap
  /\ profileLinks' = profileLinks
  /\ confirmed' = StillConfirmed(confirmed, fetches, fetches')
  /\ obtainedAt' = obtainedAt
  /\ UNCHANGED <<selectedAccount, isQRModalOpen, qrCode, removeReqs, addReqs,
                 initReqs, cachedLayout, phase, user, scope, ops, photoVars, now>>

LoadAccountsFail ==
  /\ phase = "live" /\ profileReq = "pending"
  /\ profileReq' = "idle"
  /\ initialLoading' = FALSE
  /\ UNCHANGED <<accounts, billData, loadingAccounts, comparisonData, trendData,
                 trendLines, selectedAccount, isQRModalOpen, qrCode, fetches,
                 chartReqs, removeReqs, addReqs, initReqs, cache, cachedLayout,
                 phase, bookVars, user, scope, ops, photoVars, now>>

\* ---- fetchBillForAccount -------------------------------------------------
\* A try branch that keeps a snapshot that is already there.
StoreBillIfAbsent(bills, a, data) ==
  IF a \in DOMAIN bills THEN bills ELSE SetKey(bills, a, data)

\* billData after the try branch stored the response.
StoreBill(bills, a, data) == SetKey(bills, a, data)

\* A catch branch that writes a map holding the error snapshot alone.
StoreErrorAlone(bills, a) == [x \in {a} |-> ErrorSnapshot]

\* billData after the catch branch.
StoreError(bills, a) == SetKey(bills, a, ErrorSnapshot)

\* loadingAccounts after the finally branch.
ClearLoading(load, a) == SetKey(load, a, FALSE)

\* A settlement that also drops the other calls outstanding for the account.
SettleAll(fet, a) == [fet EXCEPT ![a] = 0]

\* The calls outstanding once one call for `a` has settled: each call of
\* fetchBillForAccount has its own continuation.
Settle(fet, a) == [fet EXCEPT ![a] = @ - 1]

\* The continuation of fetchBillForAccount(a) once the call has settled with
\* billData becoming `bills`.
FetchSettled(a, bills) ==
  /\ phase = "live" /\ fetches[a] > 0
  /\ LET c == Commit(accounts, bills, ClearLoading(loadingAccounts, a),
                     Settle(fetches, a), cache,
                     ChartState, FALSE, TRUE, TRUE)
     IN Apply(accounts, bills, c)
  /\ fetched' = fetched \cup {a}
  /\ obtainedAt' = Obtained(obtainedAt, a, now)
  /\ UNCHANGED <<fallbackAccs, profileLinks, confirmed>>
  /\ UNCHANGED <<initialLoading, selectedAccount, isQRModalOpen, qrCode, profileReq,
                 removeReqs, addReqs, initReqs, cachedLayout, phase, removed,
                 user, scope, ops, photoVars, now>>

FetchOk(a, data) == FetchSettled(a, StoreBill(billData, a, data))

FetchFail(a) == FetchSettled(a, StoreError(billData, a))

\* handleRefresh: the refresh button is disabled while the card is loading.
Refresh(a) ==
  /\ CardsUsable /\ a \in Range(accounts) /\ ~IsLoading(loadingAccounts, a)
  /\ UserOp
  /\ LET c == Commit(accounts, billData, SetKey(loadingAccounts, a, TRUE),
                     [fetches EXCEPT ![a] = @ + 1], cache,
                     ChartState, FALSE, FALSE, TRUE)
     IN Apply(accounts, billData, c)
  /\ confirmed' = confirmed \ {a}
  /\ obtainedAt' = obtainedAt
  /\ UNCHANGED <<initialLoading, selectedAccount, isQRModalOpen, qrCode, profileReq,
                 removeReqs, addReqs, initReqs, cachedLayout, phase, removed,
                 fetched, fallbackAccs, profileLinks, user, scope, photoVars, now>>

\* ---- payment ---------------------------------------------------------------
\* A guard that opens a session for any account.
PayableAlways(bills, a) == TRUE

\* The guard of handlePayNow: a session is opened only for a bill that exists,
\* is not paid and has a non-zero amount.
Payable(bills, a) ==
  /\ a \in DOMAIN bills
  /\ bills[a].status # "paid"
  /\ bills[a].amount_due # Absent
  /\ bills[a].amount_due # 0

\* handlePayNow: the card shows "Pay Now" unless its snapshot is paid.
PayNow(a) ==
  /\ CardsUsable /\ a \in Range(accounts)
  /\ ShowsPayNow(billData, a)
  /\ UserOp
  /\ selectedAccount' = a
  /\ IF Payable(billData, a)
     THEN /\ qrCode' = ""
          /\ isQRModalOpen' = TRUE
          /\ initReqs[a] < MaxFetch
          /\ initReqs' = IF "qr" \in scope
                         THEN [initReqs EXCEPT ![a] = @ + 1] ELSE initReqs
     ELSE UNCHANGED <<qrCode, isQRModalOpen, initReqs>>
  /\ UNCHANGED <<accounts, billData, loadingAccounts, initialLoading, comparisonData,
                 trendData, trendLines, profileReq, fetches, chartReqs, removeReqs,
                 addReqs, cache, cachedLayout, phase, bookVars, user, scope, photoVars, now>>

\* paymentsApi.initiate(...).then: the QR is swapped in when the answer has one.
InitiateOk(a, hasQr) ==
  /\ phase = "live" /\ initReqs[a] > 0
  /\ initReqs' = [initReqs EXCEPT ![a] = @ - 1]
  /\ qrCode' = IF hasQr THEN a ELSE qrCode
  /\ UNCHANGED <<accounts, billData, loadingAccounts, initialLoading, comparisonData,
                 trendData, trendLines, selectedAccount, isQRModalOpen, profileReq,
                 fetches, chartReqs, removeReqs, addReqs, cache, cachedLayout, phase,
                 bookVars, user, scope, ops, photoVars, now>>

\* .catch: the default QR stays.
InitiateFail(a) ==
  /\ phase = "live" /\ initReqs[a] > 0
  /\ initReqs' = [initReqs EXCEPT ![a] = @ - 1]
  /\ UNCHANGED <<accounts, billData, loadingAccounts, initialLoading, comparisonData,
                 trendData, trendLines, selectedAccount, isQRModalOpen, qrCode,
                 profileReq, fetches, chartReqs, removeReqs, addReqs, cache,
                 cachedLayout, phase, bookVars, user, scope, ops, photoVars, now>>

\* { ...prev[accountId], amount_due: 0, status: 'paid' }
PaidKeepingAmount(bills, a) ==
  IF a \in DOMAIN bills
  THEN [bills[a] EXCEPT !.status = "paid"]
  ELSE Snap("paid", 0, FALSE, Absent)

PaidSnapshot(bills, a) ==
  IF a \in DOMAIN bills
  THEN [bills[a] EXCEPT !.amount_due = 0, !.status = "paid"]
  ELSE Snap("paid", 0, FALSE, Absent)

\* The updater of handlePaymentComplete.
MarkPaid(bills, a) == SetKey(bills, a, PaidSnapshot(bills, a))

\* "Payment Done" in QRModal: onPaymentComplete(), then onClose().
PaymentDone ==
  /\ phase = "live" /\ isQRModalOpen
  /\ IF selectedAccount # NoAccount
     THEN LET bills == MarkPaid(billData, selectedAccount)
              c == Commit(accounts, bills, loadingAccounts, fetches,
                          saveCachedLayout(cache, accounts, bills, now),
                          ChartState, FALSE, TRUE, FALSE)
          IN Apply(accounts, bills, c)
     ELSE UNCHANGED <<accounts, billData, loadingAccounts, fetches, cache,
                      comparisonData, trendData, trendLines, chartReqs>>
  /\ isQRModalOpen' = FALSE
  /\ confirmed' = IF "paid" \in scope /\ selectedAccount # NoAccount
                  THEN confirmed \cup {selectedAccount} ELSE confirmed
  /\ obtainedAt' = IF selectedAccount # NoAccount
                   THEN Obtained(obtainedAt, selectedAccount, now) ELSE obtainedAt
  /\ UNCHANGED <<initialLoading, selectedAccount, qrCode, profileReq, removeReqs,
                 addReqs, initReqs, cachedLayout, phase, removed, fetched,
                 fallbackAccs, profileLinks, user, scope, ops, photoVars, now>>

\* Cancel, the close button or the backdrop of QRModal.
CloseModal ==
  /\ phase = "live" /\ isQRModalOpen
  /\ isQRModalOpen' = FALSE
  /\ UNCHANGED <<accounts, billData, loadingAccounts, initialLoading, comparisonData,
                 trendData, trendLines, selectedAccount, qrCode, profileReq, fetches,
                 chartReqs, removeReqs, addReqs, initReqs, cache, cachedLayout, phase,
                 bookVars, user, scope, ops, photoVars, now>>

\* ---- handleRemoveAccount -------------------------------------------------
\* Up to the await: the remote delete is sent; the continuation keeps the
\* accounts and billData of the render the click happened in.
RemoveClick(a) ==
  /\ CardsUsable /\ a \in Range(accounts)
  /\ UserOp
  /\ removeReqs' = removeReqs \cup {[id |-> a, accs |-> accounts, bills |-> billData]}
  /\ UNCHANGED <<accounts, billData, loadingAccounts, initialLoading, comparisonData,
                 trendData, trendLines, selectedAccount, isQRModalOpen, qrCode,
                 profileReq, fetches, chartReqs, addReqs, initReqs, cache,
                 cachedLayout, phase, bookVars, user, scope, photoVars, now>>

\* The local update after the await, whether the remote delete succeeded.
RemoveLocal(accs, a) == RemoveId(accs, a)
EvictBill(bills, a) == DeleteKey(bills, a)

RemoveDone(r, ok) ==
  /\ phase = "live" /\ r \in removeReqs
  /\ removeReqs' = removeReqs \ {r}
  /\ LET accs == RemoveLocal(accounts, r.id)
         bills == EvictBill(billData, r.id)
         c == Commit(accs, bills, loadingAccounts, fetches,
                     saveCachedLayout(cache, RemoveId(r.accs, r.id), r.bills, now),
                     ChartState, TRUE, TRUE, FALSE)
     IN Apply(accs, bills, c)
  /\ removed' = removed \cup {r.id}
  /\ fetched' = fetched \ {r.id}
  /\ fallbackAccs' = DeleteKey(fallbackAccs, r.id)
  /\ profileLinks' = profileLinks
  /\ confirmed' = StillConfirmed(confirmed, fetches, fetches') \ {r.id}
  /\ obtainedAt' = obtainedAt
  /\ UNCHANGED <<initialLoading, selectedAccount, isQRModalOpen, qrCode, profileReq,
                 addReqs, initReqs, cachedLayout, phase, user, scope, ops, photoVars, now>>

\* ---- handleAddAccount ----------------------------------------------------
\* Up to the await. `a` is the id the account ends up with: the backend's, or
\* Date.now().toString() in the fallback.
AddClick(a) ==
  /\ phase = "live" /\ ~isQRModalOpen
  /\ a \notin Range(accounts) /\ a \notin addReqs
  /\ UserOp
  /\ addReqs' = addReqs \cup {a}
  /\ UNCHANGED <<accounts, billData, loadingAccounts, initialLoading, comparisonData,
                 trendData, trendLines, selectedAccount, isQRModalOpen, qrCode,
                 profileReq, fetches, chartReqs, removeReqs, initReqs, cache,
                 cachedLayout, phase, bookVars,
                 user, scope, photoVars, now>>

\* The profile selected in AddAccountModal.
ProfileId == "p1"

\* What AddAccountModal submits for the account that will be listed as `a`.
Draft(a) ==
  [service_type |-> service_type(a), consumer_id |-> <<"consumer", a>>,
   label |-> <<"label", a>>, profile_id |-> ProfileId]

\* A fallback that loses the profile of the draft.
FallbackWithoutProfile(draft, t) ==
  [service_type |-> draft.service_type, consumer_id |-> draft.consumer_id,
   label |-> draft.label, profile_id |-> "", id |-> t]

\* { ...account, id: Date.now().toString() }
FallbackAccount(draft, t) ==
  [service_type |-> draft.service_type, consumer_id |-> draft.consumer_id,
   label |-> draft.label, profile_id |-> draft.profile_id, id |-> t]

\* ProfilesContext.linkAccount, for a profile that exists.
linkAccount(links, profileId, accountId) == links \cup {<<profileId, accountId>>}

\* Both branches: the account is appended, linked to its profile and its bill
\* fetched at once; the changed account list then runs the auto-fetch effect
\* as well. The catch branch (ok = FALSE) builds the account object locally.
AddDone(a, ok) ==
  /\ phase = "live" /\ a \in addReqs
  /\ addReqs' = addReqs \ {a}
  /\ LET accs == Append(accounts, a)
         c == Commit(accs, billData, SetKey(loadingAccounts, a, TRUE),
                     [fetches EXCEPT ![a] = @ + 1], cache,
                     ChartState, TRUE, FALSE, TRUE)
     IN Apply(accs, billData, c)
  /\ removed' = removed \ {a}
  /\ fetched' = fetched
  /\ fallbackAccs' = IF ok \/ "add" \notin scope THEN fallbackAccs
                     ELSE SetKey(fallbackAccs, a, FallbackAccount(Draft(a), now))
  /\ profileLinks' = IF "add" \in scope /\ Draft(a).profile_id # ""
                     THEN linkAccount(profileLinks, Draft(a).profile_id, a)
                     ELSE profileLinks
  /\ confirmed' = StillConfirmed(confirmed, fetches, fetches')
  /\ obtainedAt' = obtainedAt
  /\ UNCHANGED <<initialLoading, selectedAccount, isQRModalOpen, qrCode, profileReq,
                 removeReqs, initReqs, cachedLayout, phase, user, scope, ops, photoVars, now>>

\* ---- chart responses -----------------------------------------------------
DropAt(seq, i) == SubSeq(seq, 1, i - 1) \o SubSeq(seq, i + 1, Len(seq))

\* The try branch of fetchChartData after the await.
ChartOk(i, data) ==
  /\ phase = "live" /\ i \in 1..Len(chartReqs)
  /\ chartReqs' = DropAt(chartReqs, i)
  /\ comparisonData' = OrEmpty(data.comparison_data)
  /\ trendData' = OrEmpty(data.trend_data)
  /\ trendLines' = OrEmpty(data.trend_lines)
  /\ UNCHANGED <<accounts, billData, loadingAccounts, initialLoading, selectedAccount,
                 isQRModalOpen, qrCode, profileReq, fetches, removeReqs, addReqs,
                 initReqs, cache, cachedLayout, phase, bookVars, user, scope, ops,
                 photoVars, now>>

\* The catch branch: comparison from the accounts and billData the call was
\* made with, no trend.
ChartFail(i) ==
  /\ phase = "live" /\ i \in 1..Len(chartReqs)
  /\ chartReqs' = DropAt(chartReqs, i)
  /\ comparisonData' = LocalComparison(chartReqs[i].accs, chartReqs[i].bills)
  /\ trendData' = FallbackTrend(chartReqs[i].accs, chartReqs[i].bills)
  /\ trendLines' = FallbackTrend(chartReqs[i].accs, chartReqs[i].bills)
  /\ UNCHANGED <<accounts, billData, loadingAccounts, initialLoading, selectedAccount,
                 isQRModalOpen, qrCode, profileReq, fetches, removeReqs, addReqs,
                 initReqs, cache, cachedLayout, phase, bookVars, user, scope, ops,
                 photoVars, now>>

\* ---- page reload ---------------------------------------------------------
\* Dashboard is constructed over `stored`; nothing of the component's earlier
\* life survives.
Remount(stored) ==
  /\ cache' = stored
  /\ LET layout == loadCachedLayout(stored, now)
     IN /\ cachedLayout' = layout
        /\ accounts' = SeedAccounts(layout)
        /\ billData' = SeedBills(layout)
        /\ initialLoading' = (layout.kind = "null")
        /\ removed' = removed \ Range(layout.accounts)
        /\ fetched' = {}
        /\ fallbackAccs' = EmptyMap
        /\ profileLinks' = {}
        /\ confirmed' = {}
        /\ obtainedAt' = obtainedAt
  /\ loadingAccounts' = EmptyMap
  /\ comparisonData' = <<>>
  /\ trendData' = <<>>
  /\ trendLines' = <<>>
  /\ selectedAccount' = NoAccount
  /\ isQRModalOpen' = FALSE
  /\ qrCode' = ""
  /\ profileReq' = "idle"
  /\ fetches' = NoFetches
  /\ chartReqs' = <<>>
  /\ removeReqs' = {}
  /\ addReqs' = {}
  /\ initReqs' = NoFetches
  /\ phase' = "rendered"
  /\ UNCHANGED <<scope, photoVars, now>>

\* The page is loaded again: every pending continuation is gone and the
\* component is constructed from what localStorage holds.
Reload == UserOp /\ Remount(cache) /\ user' = user

\* ---- logout, login -------------------------------------------------------
\* What AuthContext.logout removes from localStorage: the token and the user.
\* The layout record stays.
AfterLogout(stored) == stored

\* The user logs out and another user logs in: the dashboard is constructed
\* anew from what localStorage holds.
SwitchUser(u) ==
  /\ u # user
  /\ UserOp
  /\ Remount(AfterLogout(cache))
  /\ user' = u

\* Network completions of the account list and the bill fetches.
NetNext ==
  \/ MountEffects
  \/ \E list \in ProfileLists : LoadAccountsOk(list)
  \/ LoadAccountsFail
  \/ \E a \in Ids, data \in BillResponses : FetchOk(a, data)
  \/ \E a \in Ids : FetchFail(a)

\* What the user does with the bills shown.
UserNext ==
  \/ \E a \in Ids : Refresh(a)
  \/ \E a \in Ids : PayNow(a)
  \/ PaymentDone
  \/ CloseModal

\* Changes of the account list by the user, with their completions.
EditNext ==
  \/ \E a \in Ids : RemoveClick(a)
  \/ \E r \in removeReqs, ok \in BOOLEAN : RemoveDone(r, ok)
  \/ \E a \in Ids : AddClick(a)
  \/ \E a \in Ids, ok \in BOOLEAN : AddDone(a, ok)

QrNext ==
  \/ \E a \in Ids, hasQr \in BOOLEAN : InitiateOk(a, hasQr)
  \/ \E a \in Ids : InitiateFail(a)

ChartNext ==
  \/ \E i \in 1..MaxChart, data \in ChartResponses : ChartOk(i, data)
  \/ \E i \in 1..MaxChart : ChartFail(i)

\* The dashboard without its chart requests: accounts, bills, payment, cache.
Init == DashInit({"qr"}, NoRecord, MaxOps) /\ PhotoUnused
Spec == Init /\ [][NetNext \/ UserNext \/ EditNext \/ QrNext \/ Reload]_vars

\* The dashboard with its chart requests, on a browser whose storage is
\* disabled (every cache access throws and is swallowed).
InitCharts == DashInit({"charts"}, Denied, ChartOps) /\ PhotoUnused
SpecCharts == InitCharts /\ [][NetNext \/ UserNext \/ ChartNext]_vars

\* The dashboard with its confirmed payments followed.
InitPay == DashInit({"paid"}, NoRecord, PayOps) /\ PhotoUnused
SpecPay == InitPay /\ [][NetNext \/ UserNext]_vars

\* The dashboard in a browser two users share, one logging in after the other.
InitLogin == DashInit({}, NoRecord, LoginOps) /\ PhotoUnused
SpecLogin == InitLogin /\ [][NetNext \/ \E u \in Users : SwitchUser(u)]_vars

\* The dashboard with the account objects the add handler builds and the
\* profile links it makes.
InitAdd == DashInit({"add"}, NoRecord, AddOps) /\ PhotoUnused
SpecAdd == InitAdd /\ [][NetNext \/ EditNext]_vars

----------------------------------------------------------------------------
\* The layout cache over time: the clock runs, the page is reloaded.
Tick ==
  /\ phase = "live" /\ now + TickHours <= MaxTime
  /\ now' = now + TickHours
  /\ UNCHANGED <<dashVars, photoVars>>

PaidA == [x \in {"A"} |-> Snap("paid", 0, FALSE, Absent)]

\* What localStorage may hold when the page is first opened.
StoredAtStart == { NoRecord, Garbage, Denied, Record(<<"A">>, PaidA, 1),
                   Record(<<"A">>, PaidA, 0) }

UnpaidA == [x \in {"A"} |-> Snap("unpaid", 500, FALSE, 120)]

\* The dashboard on a storage that cannot be written: disabled altogether, or
\* full with a record of an earlier visit in it.
BrokenAtStart == { Denied, Full(<<"A">>, UnpaidA, 1) }

InitBroken == \E stored \in BrokenAtStart : DashInit({}, stored, BrokenOps) /\ PhotoUnused
SpecBroken == InitBroken /\ [][NetNext \/ UserNext \/ EditNext \/ Reload]_vars

\* The dashboard with every call it makes completing: the effects of a render
\* run, and the profile load, each bill fetch, each removal and each add that
\* is outstanding is answered, with success or failure.

\* Which bill a fetch answers with makes no difference to its completion: one
\* answer stands for the successful ones.
LiveResponses == { Snap("unpaid", 500, FALSE, 120) }

\* One of the calls outstanding is answered, or the effects of the first
\* render run.
Completion ==
  \/ MountEffects
  \/ \E list \in ProfileLists : LoadAccountsOk(list)
  \/ LoadAccountsFail
  \/ \E a \in Ids, data \in LiveResponses : FetchOk(a, data)
  \/ \E a \in Ids : FetchFail(a)
  \/ \E r \in removeReqs, ok \in BOOLEAN : RemoveDone(r, ok)
  \/ \E a \in Ids, ok \in BOOLEAN : AddDone(a, ok)

\* While a call is outstanding, some call is answered.
Completes == WF_vars(Completion)

LiveNet ==
  \/ MountEffects
  \/ \E list \in ProfileLists : LoadAccountsOk(list)
  \/ LoadAccountsFail
  \/ \E a \in Ids, data \in LiveResponses : FetchOk(a, data)
  \/ \E a \in Ids : FetchFail(a)

LiveNext == LiveNet \/ EditNext \/ (\E a \in Ids : Refresh(a)) \/ Reload

InitLive == DashInit({}, NoRecord, LiveOps) /\ PhotoUnused
SpecLive == InitLive /\ [][LiveNext]_vars /\ Completes

\* The dashboard over several days, opened first on a record written an
\* hour ago, with the hour each snapshot was obtained followed.
InitAge == DashInit({"age"}, Record(<<"A">>, PaidA, 1), AgeOps) /\ PhotoUnused
SpecAge == InitAge /\ [][NetNext \/ Reload \/ Tick]_vars

InitCache == \E stored \in StoredAtStart : DashInit({}, stored, CacheOps) /\ PhotoUnused
SpecCache == InitCache /\ [][NetNext \/ Reload \/ Tick]_vars

----------------------------------------------------------------------------
\* The photo-report surfaces: DisasterSentinel and Sentinel (pages), and
\* DisasterChatbot.
Surfaces == {"disaster", "sentinel", "chatbot"}
Images == {"img1", "img2"}
IsPage == surface \in {"disaster", "sentinel"}

\* navigator.geolocation.getCurrentPosition: success callback.
GeoOk(pos) ==
  /\ geoPending
  /\ geoPending' = FALSE
  /\ deviceLocation' = pos
  /\ UNCHANGED <<surface, selectedImage, imagePreview, isAnalyzing, analysisResult,
                 botMessage, previewReads, reader, analyzeReq, editVars, dashVars, now>>

\* Error callback (denied, timeout): deviceLocation stays null.
GeoError ==
  /\ geoPending
  /\ geoPending' = FALSE
  /\ UNCHANGED <<surface, selectedImage, imagePreview, isAnalyzing, analysisResult,
                 deviceLocation, botMessage, previewReads, reader, analyzeReq,
                 editVars, dashVars, now>>

\* handleImageSelect: the pages drop the previous result.
SelectImage(img) ==
  /\ selectedImage' = img
  /\ analysisResult' = IF IsPage THEN "null" ELSE analysisResult
  /\ incident' = IF IsPage THEN NoIncident ELSE incident
  /\ previewReads' = previewReads \cup {img}
  /\ UNCHANGED <<surface, imagePreview, isAnalyzing, deviceLocation, botMessage,
                 geoPending, reader, analyzeReq, isEditing, editedIncident,
                 dashVars, now>>

\* reader.onload of handleImageSelect.
PreviewLoaded(img) ==
  /\ img \in previewReads
  /\ previewReads' = previewReads \ {img}
  /\ imagePreview' = img
  /\ UNCHANGED <<surface, selectedImage, isAnalyzing, analysisResult, deviceLocation,
                 botMessage, geoPending, reader, analyzeReq, editVars, dashVars, now>>

\* clearForm / clearImage on the pages, cancelImage in the chatbot.
ClearImage ==
  /\ imagePreview # "none"
  /\ selectedImage' = "none"
  /\ imagePreview' = "none"
  /\ analysisResult' = IF IsPage THEN "null" ELSE analysisResult
  /\ incident' = IF IsPage THEN NoIncident ELSE incident
  /\ isEditing' = IF IsPage THEN FALSE ELSE isEditing
  /\ editedIncident' = IF IsPage THEN NoEdit ELSE editedIncident
  /\ UNCHANGED <<surface, isAnalyzing, deviceLocation, botMessage, geoPending,
                 previewReads, reader, analyzeReq, dashVars, now>>

\* Whether the submit button can be pressed.
CanSubmit ==
  /\ ~isAnalyzing
  /\ IF surface = "sentinel"
     THEN imagePreview # "none" /\ analysisResult = "null"
     ELSE selectedImage # "none"

\* handleAnalyze / handleSubmitImage up to reader.readAsDataURL: the
\* continuation keeps the deviceLocation of the render the press happened in.
Submit ==
  /\ CanSubmit
  /\ selectedImage # "none"
  /\ isAnalyzing' = TRUE
  /\ reader' = [img |-> selectedImage, coords |-> CoordsSent(deviceLocation)]
  /\ botMessage' = IF IsPage THEN botMessage ELSE "loading"
  /\ UNCHANGED <<surface, selectedImage, imagePreview, analysisResult, deviceLocation,
                 geoPending, previewReads, analyzeReq, editVars, dashVars, now>>

\* reader.onload of the submit: the analyze call is sent.
ReaderLoaded ==
  /\ reader # NoReq
  /\ analyzeReq' = reader
  /\ reader' = NoReq
  /\ UNCHANGED <<surface, selectedImage, imagePreview, isAnalyzing, analysisResult,
                 deviceLocation, botMessage, geoPending, previewReads, editVars, dashVars, now>>

\* The state of a surface once the analyze call has answered with
\* data.success = success and data.incident = inc.
AnalyzeOk(success, inc) ==
  /\ analyzeReq # NoReq
  /\ analyzeReq' = NoReq
  /\ isAnalyzing' = FALSE
  /\ IF IsPage
     THEN /\ analysisResult' = IF success THEN "success" ELSE "notSuccess"
          /\ incident' = inc
          /\ UNCHANGED <<selectedImage, imagePreview, botMessage>>
     ELSE /\ botMessage' = IF success THEN "incident" ELSE "sorry"
          /\ selectedImage' = "none"
          /\ imagePreview' = "none"
          /\ UNCHANGED <<analysisResult, incident>>
  /\ UNCHANGED <<surface, deviceLocation, geoPending, previewReads, reader,
                 isEditing, editedIncident, dashVars, now>>

\* isAnalyzing after the analyze call has rejected. On the pages the await sits
\* in the reader's onload callback, outside the try of handleAnalyze: the
\* rejection is unhandled and no state is set. The chatbot catches it inside
\* the callback.
AnalyzingAfterError(page) == IF page THEN isAnalyzing ELSE FALSE

AnalyzeError ==
  /\ analyzeReq # NoReq
  /\ analyzeReq' = NoReq
  /\ isAnalyzing' = AnalyzingAfterError(IsPage)
  /\ IF IsPage
     THEN UNCHANGED <<selectedImage, imagePreview, botMessage>>
     ELSE /\ botMessage' = "error"
          /\ selectedImage' = "none"
          /\ imagePreview' = "none"
  /\ UNCHANGED <<surface, analysisResult, deviceLocation, geoPending, previewReads,
                 reader, editVars, dashVars, now>>

\* ---- editing the result ---------------------------------------------------
\* What the edit form's select and text field can be set to.
Severities == {"P2"}
Descriptions == {"", "fallen tree"}

PhotoFrame == <<surface, selectedImage, imagePreview, isAnalyzing, analysisResult,
                deviceLocation, botMessage, geoPending, previewReads, reader,
                analyzeReq>>

\* handleStartEdit: the Edit button is shown for a successful result that is
\* not being edited.
StartEdit ==
  /\ IsPage /\ analysisResult = "success" /\ ~isEditing
  /\ incident.present
  /\ editedIncident' = EditBuffer(incident)
  /\ isEditing' = TRUE
  /\ UNCHANGED <<incident, PhotoFrame, dashVars, now>>

\* onChange of the severity select: prev => ({ ...prev, severity: value }).
ChangeSeverity(sev) ==
  /\ IsPage /\ analysisResult = "success" /\ isEditing
  /\ editedIncident' = [editedIncident EXCEPT !.present = TRUE, !.severity = sev]
  /\ UNCHANGED <<incident, isEditing, PhotoFrame, dashVars, now>>

\* onChange of the description field.
ChangeDescription(text) ==
  /\ IsPage /\ analysisResult = "success" /\ isEditing
  /\ editedIncident' = [editedIncident EXCEPT !.present = TRUE, !.description = text]
  /\ UNCHANGED <<incident, isEditing, PhotoFrame, dashVars, now>>

\* handleSaveEdit: the Save button is shown while isEditing.
SaveEdit ==
  /\ IsPage /\ isEditing
  /\ IF analysisResult # "null" /\ editedIncident.present
     THEN /\ incident' = MergeEdit(incident, editedIncident)
          /\ isEditing' = FALSE
     ELSE UNCHANGED <<incident, isEditing>>
  /\ UNCHANGED <<editedIncident, PhotoFrame, dashVars, now>>

\* The callbacks of getCurrentPosition.
GeoNext ==
  \/ \E pos \in Positions : GeoOk(pos)
  \/ GeoError

\* Selecting, submitting and analysing a photo.
ReportNext ==
  \/ \E img \in Images : SelectImage(img)
  \/ \E img \in Images : PreviewLoaded(img)
  \/ ClearImage
  \/ Submit
  \/ ReaderLoaded
  \/ \E success \in BOOLEAN, inc \in Incidents \cup {NoIncident} :
       inc \in ResponseIncidents(success) /\ AnalyzeOk(success, inc)
  \/ AnalyzeError

PhotoNext == GeoNext \/ ReportNext

ResultEditNext ==
  \/ StartEdit
  \/ \E sev \in Severities : ChangeSeverity(sev)
  \/ \E text \in Descriptions : ChangeDescription(text)
  \/ SaveEdit

InitPhoto ==
  /\ DashInit({}, Denied, 0)
  /\ surface \in Surfaces
  /\ geoPending = TRUE
  /\ PhotoIdle
SpecPhoto == InitPhoto /\ [][PhotoNext]_vars

\* The two pages with the editing of the result, on a device that has
\* refused to report its position.
InitEdit ==
  /\ DashInit({}, Denied, 0)
  /\ surface \in {"disaster", "sentinel"}
  /\ geoPending = FALSE
  /\ PhotoIdle
SpecEdit == InitEdit /\ [][ReportNext \/ ResultEditNext]_vars

----------------------------------------------------------------------------
\* Properties.

\* C1: when a bill fetch for account A fails, billData[A] becomes
\* {amount_due: 0, status: 'unknown', error: true} and the snapshot of every
\* other account is the same before and after, whatever else is in flight.
C1_FetchFailureIsolated ==
  [][\A a \in Ids :
       FetchFail(a) =>
         /\ a \in DOMAIN billData'
         /\ billData'[a] = Snap("unknown", 0, TRUE, Absent)
         /\ \A b \in Ids \ {a} :
              /\ (b \in DOMAIN billData') = (b \in DOMAIN billData)
              /\ b \in DOMAIN billData => billData'[b] = billData[b]]_vars

\* A failed fetch of A has been stored while B holds a fetched snapshot and
\* has another fetch in flight.
C1_Witness ==
  /\ DOMAIN billData = {"A", "B"}
  /\ billData["A"] = Snap("unknown", 0, TRUE, Absent)
  /\ billData["B"].status = "unpaid"
  /\ fetches["B"] > 0

\* C2: in every reachable state a snapshot with error = true has status
\* 'unknown'.
C2_ErrorImpliesUnknown ==
  \A a \in DOMAIN billData : billData[a].error => billData[a].status = "unknown"

\* C3: an account removed by handleRemoveAccount and not added again since is
\* neither in accounts nor a key of billData.
C3_RemovedStaysAbsent ==
  \A a \in removed : a \notin Range(accounts) /\ a \notin DOMAIN billData

\* C4: right after construction, the layout is null (and accounts and billData
\* start empty) whenever the stored record is absent, unparseable, unreadable
\* or stamped more than 24 hours ago; a layout is used only if a record is
\* stored whose age is less than 24 hours, and it then seeds accounts and
\* billData.
C4_StaleCacheDiscarded ==
  phase = "rendered" =>
    /\ (cache.kind # "json" \/ now - cache.timestamp > 24) =>
          /\ cachedLayout.kind = "null"
          /\ accounts = <<>>
          /\ billData = EmptyMap
    /\ cachedLayout.kind # "null" =>
          /\ cache.kind = "json"
          /\ now - cache.timestamp < 24
          /\ cachedLayout = cache
          /\ accounts = cache.accounts
          /\ billData = cache.billData

\* The page was constructed over a well-formed record older than 24 hours.
C4_Witness ==
  /\ phase = "rendered"
  /\ cache.kind = "json"
  /\ cache.accounts = <<"A">>
  /\ now - cache.timestamp > 24
  /\ cachedLayout.kind = "null"

\* The requests a payment confirmation could issue or wait for, other than
\* the chart request.
BillRequests == <<profileReq, fetches, removeReqs, addReqs, initReqs>>

RECURSIVE SumAt(_, _)
SumAt(f, S) ==
  IF S = {} THEN 0
  ELSE LET i == CHOOSE x \in S : TRUE IN f[i] + SumAt(f, S \ {i})

\* Per service type of accs, the sum of the amount_due of the snapshots in
\* bills of the accounts of that type, as a set of buckets.
Buckets(accs, bills) ==
  { [service |-> MetaName(t),
     amount |-> SumAt([i \in 1..Len(accs) |->
                         IF accs[i] \in DOMAIN bills /\ bills[accs[i]].amount_due > 0
                         THEN bills[accs[i]].amount_due ELSE 0],
                      {i \in 1..Len(accs) : service_type(accs[i]) = t})]
    : t \in {service_type(accs[i]) : i \in 1..Len(accs)} }

\* C6: when the chart call fails the trend series are emptied and
\* comparisonData holds, per service type, the sum of the current amount_due
\* of the loaded snapshots of the accounts of that type.
C6_FallbackUsesCurrent ==
  [][\A i \in 1..MaxChart :
       ChartFail(i) =>
         /\ trendData' = <<>>
         /\ trendLines' = <<>>
         /\ Range(comparisonData') = Buckets(accounts', billData')]_vars

\* C7: trendData and trendLines only ever change to empty or to the value a
\* successful chart response carries, and a response without trend data leaves
\* them empty.
C7_NoLocalTrend ==
  [][/\ \/ trendData' = trendData
        \/ trendData' = <<>>
        \/ \E i \in 1..MaxChart, data \in ChartResponses :
             ChartOk(i, data) /\ data.trend_data.present /\ trendData' = data.trend_data.val
     /\ \/ trendLines' = trendLines
        \/ trendLines' = <<>>
        \/ \E i \in 1..MaxChart, data \in ChartResponses :
             ChartOk(i, data) /\ data.trend_lines.present /\ trendLines' = data.trend_lines.val
     /\ \A i \in 1..MaxChart, data \in ChartResponses :
          (ChartOk(i, data) /\ ~data.trend_data.present) => trendData' = <<>>]_vars

\* A failed chart call computed the comparison locally (only the local
\* computation yields a KWA bucket) and left both trend series empty.
C7_Witness ==
  /\ comparisonData # <<>>
  /\ comparisonData[Len(comparisonData)].service = "KWA"
  /\ trendData = <<>>
  /\ trendLines = <<>>
  /\ chartReqs # <<>>

\* C8: a chart request is started only when no bill fetch is in flight.
C8_NoChartMidFetch ==
  [][Len(chartReqs') > Len(chartReqs) => \A a \in Ids : fetches'[a] = 0]_vars

\* C9: on every surface, once the file read and the analyze call of a submit
\* have completed, isAnalyzing is false.
C9_LeavesAnalyzing ==
  isAnalyzing => (reader # NoReq \/ analyzeReq # NoReq)

\* The sum the specification describes: amount_due over the snapshots that are not
\* paid and have a positive amount.
RECURSIVE ClaimedTotal(_, _)
ClaimedTotal(bills, S) ==
  IF S = {} THEN 0
  ELSE LET a == CHOOSE x \in S : TRUE
       IN (IF bills[a].status = "paid" \/ bills[a].amount_due <= 0
           THEN 0 ELSE bills[a].amount_due) + ClaimedTotal(bills, S \ {a})

ClaimedUnpaid(bills) == Cardinality({a \in DOMAIN bills : bills[a].status = "unpaid"})

\* C10: totalDue is the sum of amount_due over the snapshots that are not
\* paid and have a positive amount, and unpaidCount is the number of snapshots
\* with status 'unpaid'.
C10_TotalsOverSnapshots ==
  /\ totalDue = ClaimedTotal(billData, DOMAIN billData)
  /\ unpaidCount = ClaimedUnpaid(billData)

\* C11: with a power account (unpaid, 500) and a water account whose fetch
\* failed, the locally computed comparison series is exactly one bucket, power
\* with amount 500.
C11_FailedAccountNoBucket ==
  [][\A i \in 1..MaxChart :
       ( /\ ChartFail(i)
         /\ accounts = <<"A", "B">>
         /\ billData = [x \in {"A", "B"} |->
                          IF x = "A" THEN Snap("unpaid", 500, FALSE, 120)
                          ELSE Snap("unknown", 0, TRUE, Absent)]
         /\ chartReqs[i] = [accs |-> accounts, bills |-> billData] )
       => comparisonData' = <<[service |-> "KSEB", amount |-> 500]>>]_vars

\* C12: when the page is constructed over a stamped record less than 24 hours
\* old with accounts [A] and A paid, the first render has A in accounts with
\* status 'paid' and no placeholder, and no network call has been started.
C12_CachedPaidAtFirstRender ==
  ( /\ phase = "rendered"
    /\ cache.kind = "json"
    /\ cache.timestamp # 0
    /\ now - cache.timestamp < 24
    /\ cache.accounts = <<"A">>
    /\ "A" \in DOMAIN cache.billData
    /\ cache.billData["A"].status = "paid" )
  => /\ accounts = <<"A">>
     /\ "A" \in DOMAIN billData
     /\ billData["A"].status = "paid"
     /\ ~initialLoading
     /\ profileReq = "idle"
     /\ fetches = NoFetches

\* The page was loaded again over a record written hours before, with A paid.
C12_Witness ==
  /\ phase = "rendered"
  /\ cache.kind = "json"
  /\ now - cache.timestamp > 0
  /\ now - cache.timestamp < 24
  /\ cache.accounts = <<"A">>
  /\ accounts = <<"A">>
  /\ "A" \in DOMAIN billData
  /\ billData["A"].status = "paid"
  /\ ops < CacheOps

\* C13: once the profile load and the bill fetches started after mount have
\* completed, every bill snapshot on display was stored by a fetch of this
\* page load.
C13_LiveSupersedesCache ==
  (phase = "live" /\ profileReq = "idle" /\ fetches = NoFetches) =>
    \A a \in Range(accounts) : a \in DOMAIN billData => a \in fetched

C15_RefreshSupersedes ==
  [][\A a \in Ids :
       /\ Refresh(a) =>
            /\ fetches'[a] = fetches[a] + 1
            /\ a \in DOMAIN loadingAccounts' /\ loadingAccounts'[a]
            /\ billData' = billData
       /\ fetches'[a] < fetches[a] =>
            /\ \A data \in BillResponses :
                 FetchOk(a, data) => (a \in DOMAIN billData' /\ billData'[a] = data)
            /\ FetchFail(a) =>
                 /\ a \in DOMAIN billData'
                 /\ billData'[a] = Snap("unknown", 0, TRUE, Absent)]_vars

\* A was seeded as paid from the cache at this page load (so only a refresh
\* could fetch it) and its snapshot is now the fetched unpaid bill.
C15_Witness ==
  /\ phase = "live"
  /\ cachedLayout.kind = "json"
  /\ "A" \in DOMAIN cachedLayout.billData
  /\ cachedLayout.billData["A"].status = "paid"
  /\ "A" \in fetched
  /\ "A" \in DOMAIN billData
  /\ billData["A"] = Snap("unpaid", 500, FALSE, 120)

\* C16: when the profile load sets the account list, a fetch is started in
\* that same step for every listed account lacking a snapshot, whatever is
\* already in flight; every outstanding fetch can succeed or fail at once,
\* whatever the others are doing; and a fetch that settles changes neither
\* the snapshot, the spinner flag nor the outstanding calls of another account.
C16_FetchesIndependent ==
  /\ [][\A list \in ProfileLists :
          LoadAccountsOk(list) =>
            \A a \in Range(list) : a \notin DOMAIN billData => fetches'[a] = fetches[a] + 1]_vars
  /\ [](\A a \in Ids :
          (phase = "live" /\ fetches[a] > 0) =>
            /\ ENABLED FetchFail(a)
            /\ \A data \in BillResponses : ENABLED FetchOk(a, data))
  /\ [][\A a \in Ids :
          (FetchFail(a) \/ \E data \in BillResponses : FetchOk(a, data)) =>
            \A b \in Ids \ {a} :
              /\ fetches'[b] = fetches[b]
              /\ (b \in DOMAIN billData') = (b \in DOMAIN billData)
              /\ b \in DOMAIN billData => billData'[b] = billData[b]
              /\ IsLoading(loadingAccounts', b) = IsLoading(loadingAccounts, b)]_vars

\* A and B were started together; B has failed while A, started first, is
\* still outstanding.
C16_Witness ==
  /\ accounts = <<"A", "B">>
  /\ fetches["A"] = 1
  /\ "A" \notin DOMAIN billData
  /\ IsLoading(loadingAccounts, "A")
  /\ fetches["B"] = 0
  /\ "B" \in DOMAIN billData
  /\ billData["B"] = Snap("unknown", 0, TRUE, Absent)

\* C17: while an account is removed (and not added again), the stored
\* layout-cache record neither lists it among its accounts nor holds a bill
\* entry for it.
C17_CacheForgetsRemoved ==
  \A a \in removed :
    cache.kind = "json" =>
      (a \notin Range(cache.accounts) /\ a \notin DOMAIN cache.billData)

\* C18: while an account is removed (and not added again), loadingAccounts
\* holds no true flag for it.
C18_NoSpinnerForRemoved ==
  \A a \in removed : ~IsLoading(loadingAccounts, a)

C20_AddFallsBackLocally ==
  [][\A a \in Ids :
       AddDone(a, FALSE) =>
         /\ accounts' = Append(accounts, a)
         /\ a \in DOMAIN fallbackAccs'
         /\ fallbackAccs'[a].service_type = service_type(a)
         /\ fallbackAccs'[a].consumer_id = <<"consumer", a>>
         /\ fallbackAccs'[a].label = <<"label", a>>
         /\ fallbackAccs'[a].profile_id = "p1"
         /\ fallbackAccs'[a].id = now
         /\ <<"p1", a>> \in profileLinks'
         /\ fetches'[a] > fetches[a]
         /\ IsLoading(loadingAccounts', a)
         /\ a \notin addReqs'
         /\ billData' = billData]_vars

\* The add call for B failed while A was listed: B is listed after A under
\* a local id, linked to its profile, and its bill is being fetched.
C20_Witness ==
  /\ accounts = <<"A", "B">>
  /\ "B" \in DOMAIN fallbackAccs
  /\ fallbackAccs["B"].profile_id = "p1"
  /\ <<"p1", "B">> \in profileLinks
  /\ fetches["B"] > 0
  /\ addReqs = {}

\* C21: on every surface, a submit pressed while deviceLocation is still null
\* (position denied or not yet reported) is accepted just as with a position,
\* and the analyze call it leads to is sent with device_latitude = null and
\* device_longitude = null.
C21_NoPositionSendsNull ==
  /\ [][(Submit /\ deviceLocation = NoPosition) =>
          /\ isAnalyzing'
          /\ reader'.img = selectedImage
          /\ reader'.coords = [device_latitude |-> NullArg, device_longitude |-> NullArg]]_vars
  /\ [][ReaderLoaded => analyzeReq' = reader]_vars
  /\ []((/\ deviceLocation = NoPosition
         /\ ~isAnalyzing
         /\ selectedImage # "none"
         /\ imagePreview # "none"
         /\ analysisResult = "null") => ENABLED Submit)

\* The analyze call of a submit pressed before the position arrived is in
\* flight with null coordinates, and the position has been reported since.
C21_Witness ==
  /\ analyzeReq.img # "none"
  /\ analyzeReq.coords = [device_latitude |-> NullArg, device_longitude |-> NullArg]
  /\ deviceLocation \in Positions
  /\ ~geoPending

\* C22: when an analyze call ends in failure (it is rejected, or it answers
\* with success = false), an error message is on display afterwards, the
\* selected image is still selected, and the submit button can be pressed
\* again.
C22_FailureKeepsImage ==
  [][(AnalyzeError \/ AnalyzeOk(FALSE, NoIncident)) =>
       /\ (analysisResult' = "notSuccess" \/ botMessage' \in {"sorry", "error"})
       /\ selectedImage' = selectedImage
       /\ selectedImage' # "none"
       /\ CanSubmit']_vars

\* The requests a surface has in flight and the form state an edit must
\* leave alone.
EditFrame == <<selectedImage, imagePreview, isAnalyzing, analysisResult, reader,
               analyzeReq, previewReads, geoPending, deviceLocation, botMessage>>

\* C23: starting an edit, changing a field and saving an edit change only the
\* incident of the local analysis result and the edit state: no request is
\* sent or answered, the selected image and the analyzing flag stay as they
\* are; a save writes the buffer's fields into the incident and keeps the
\* incident's other fields.
C23_EditsStayLocal ==
  [][/\ ( \/ StartEdit
          \/ \E sev \in Severities : ChangeSeverity(sev)
          \/ \E text \in Descriptions : ChangeDescription(text)
          \/ SaveEdit ) => UNCHANGED <<EditFrame, dashVars>>
     /\ (StartEdit \/ \E sev \in Severities : ChangeSeverity(sev)) => incident' = incident
     /\ (SaveEdit /\ ~isEditing') =>
          /\ incident'.id = incident.id
          /\ incident'.severity = editedIncident.severity
          /\ incident'.description = editedIncident.description
          /\ editedIncident' = editedIncident]_vars

\* An edit was saved while a second analysis of the same image was in
\* flight: the incident on display has the edited severity and its own id,
\* and the analysis is still running.
C23_Witness ==
  /\ incident.present
  /\ incident.id = 7
  /\ incident.severity = "P2"
  /\ ~isEditing
  /\ isAnalyzing
  /\ analyzeReq.img # "none"

C25_UnknownShownDistinctly ==
  \A a \in DOMAIN billData :
    billData[a].error =>
      \A b \in DOMAIN billData :
        billData[b].status \in {"paid", "unpaid"} =>
          StatusBadge(billData, a) # StatusBadge(billData, b)

\* C26: while two fetches of the same account are outstanding, the one that
\* settles leaves the other outstanding; and when the last outstanding fetch
\* of an account settles after an earlier response was stored, billData[A] is
\* that last response (or the error snapshot if it failed), whatever the
\* earlier one had stored.
C26_LastResponseWins ==
  [][\A a \in Ids :
       (fetches'[a] < fetches[a] /\ ~Reload) =>
         /\ fetches[a] >= 2 => (fetches'[a] = fetches[a] - 1 /\ fetches'[a] > 0)
         /\ (fetches[a] = 1 /\ a \in fetched) =>
              /\ a \in DOMAIN billData'
              /\ \A data \in BillResponses : FetchOk(a, data) => billData'[a] = data
              /\ FetchFail(a) => billData'[a] = Snap("unknown", 0, TRUE, Absent)]_vars

\* Of two fetches of A, one has failed and cleared the spinner; the other is
\* still outstanding.
C26_Witness ==
  /\ fetches["A"] = 1
  /\ "A" \in fetched
  /\ "A" \in DOMAIN billData
  /\ billData["A"] = Snap("unknown", 0, TRUE, Absent)
  /\ ~IsLoading(loadingAccounts, "A")
  /\ "A" \in Range(accounts)

\* C27: in every state, loadingAccounts[A] is true exactly when at least one
\* bill fetch of A is outstanding.
C27_SpinnerIffOutstanding ==
  \A a \in Ids : IsLoading(loadingAccounts, a) <=> fetches[a] > 0

\* C28: the payment modal opens only for an account whose snapshot exists, is
\* not paid and has a non-zero amount; while it is open the selected account
\* does not change; a confirmation happens only with the modal open and
\* changes the snapshot of the selected account alone; and a snapshot turns
\* paid only by a confirmation for that account, by a fetched bill or by a
\* page load.
C28_PaidThroughSession ==
  [][/\ (isQRModalOpen' /\ ~isQRModalOpen) =>
          LET a == selectedAccount'
          IN /\ a \in Ids
             /\ a \in DOMAIN billData
             /\ billData[a].status # "paid"
             /\ billData[a].amount_due > 0
     /\ (isQRModalOpen /\ isQRModalOpen') => selectedAccount' = selectedAccount
     /\ PaymentDone =>
          /\ isQRModalOpen /\ selectedAccount \in Ids
          /\ \A b \in Ids \ {selectedAccount} :
               /\ (b \in DOMAIN billData') = (b \in DOMAIN billData)
               /\ b \in DOMAIN billData => billData'[b] = billData[b]
     /\ \A a \in Ids :
          ( /\ a \in DOMAIN billData' /\ billData'[a].status = "paid"
            /\ ~(a \in DOMAIN billData /\ billData[a].status = "paid") ) =>
            \/ PaymentDone /\ isQRModalOpen /\ selectedAccount = a
            \/ fetches'[a] < fetches[a]
            \/ phase' = "rendered"]_vars

\* The payment of A was confirmed: A is paid and keeps the units of its
\* fetched bill, while B, fetched unpaid, is untouched.
C28_Witness ==
  /\ ~isQRModalOpen
  /\ selectedAccount = "A"
  /\ DOMAIN billData = {"A", "B"}
  /\ billData["A"] = Snap("paid", 0, FALSE, 120)
  /\ billData["B"] = Snap("unpaid", 500, FALSE, 120)

\* C29: when a fresh cached layout was loaded at mount, initialLoading is
\* false from the first render until the profile load has completed.
C29_NoPlaceholderWithCache ==
  (cachedLayout.kind # "null" /\ (phase = "rendered" \/ profileReq = "pending")) =>
    ~initialLoading

\* C30: while the payment modal is open, the QR code shown is the default one
\* or the one the initiate call for the selected account returned.
C30_QrOfOpenSession ==
  isQRModalOpen => qrCode \in {"", selectedAccount}

\* C31: the dashboard mounted after another user has logged in starts with no
\* account and no bill snapshot of the user before (u2 has no account of its
\* own, so its dashboard starts empty and its totals are zero).
C31_NothingOfPreviousUser ==
  (user = "u2" /\ phase = "rendered") =>
    /\ accounts = <<>>
    /\ billData = EmptyMap
    /\ totalDue = 0
    /\ unpaidCount = 0

\* C32: in every state each key of billData is the id of an account in
\* accounts.
C32_BillsOfListedAccounts ==
  DOMAIN billData \subseteq Range(accounts)

\* C33: while the payment of A has been confirmed and no fetch of A has been
\* started since, billData[A] has status 'paid' and amount_due 0.
C33_ConfirmedStaysPaid ==
  \A a \in confirmed :
    /\ a \in DOMAIN billData
    /\ billData[a].status = "paid"
    /\ billData[a].amount_due = 0

\* C34: when the last outstanding chart request ends in the fallback, with no
\* bill fetch or profile load outstanding, the chart state is the fallback
\* computed for the accounts and billData of that moment.
C34_LatestChartWins ==
  [][\A i \in 1..MaxChart :
       ( /\ ChartFail(i)
         /\ chartReqs' = <<>>
         /\ fetches = NoFetches
         /\ profileReq = "idle" )
       => /\ comparisonData' = LocalComparison(accounts, billData)
          /\ trendData' = <<>>
          /\ trendLines' = <<>>]_vars

\* C35: an account that handleAddAccount has added during this page load and
\* that has not been removed since is in accounts.
C35_AddedStaysListed ==
  \A link \in profileLinks :
    link[2] \notin removed => link[2] \in Range(accounts)


\* C36: adding one account starts exactly one bill fetch for it, and a step
\* other than a refresh never starts a fetch for an account that already has
\* one in flight.
C36_OneFetchPerAdd ==
  [][\A a \in Ids :
       /\ (\E ok \in BOOLEAN : AddDone(a, ok)) => fetches'[a] = fetches[a] + 1
       /\ (fetches'[a] > fetches[a] /\ fetches[a] > 0) => Refresh(a)]_vars


\* C37: a snapshot the first render takes from the cache was obtained, by a
\* fetch or by a payment confirmation, at most 24 hours earlier.
C37_CachedSnapshotFresh ==
  phase = "rendered" =>
    \A a \in DOMAIN billData : now - obtainedAt[a] <= FreshHours


\* Every listed account has a snapshot and no loading flag is raised.
AllSettled ==
  /\ \A a \in Range(accounts) : a \in DOMAIN billData
  /\ \A a \in DOMAIN loadingAccounts : ~loadingAccounts[a]

\* C38: when every network call completes, then whatever mounts, adds,
\* removals and refreshes have happened, the dashboard reaches a state in which
\* every listed account has a snapshot and no loading flag is raised.
C38_EventuallySettled == []<>AllSettled

\* After two user actions both accounts are listed, each has a snapshot of a
\* fetch, and nothing is loading or outstanding.
C38_Witness ==
  /\ phase = "live" /\ ops = 0
  /\ accounts = <<"A", "B">>
  /\ fetched = {"A", "B"}
  /\ AllSettled
  /\ fetches = NoFetches


\* C39: on the two pages, an analysis result that is put on display is the
\* result of the image that is selected at that moment: the response of a
\* request made for another image, or for an image cleared since, is not shown.
C39_ResultOfSelectedImage ==
  [][\A inc \in Incidents :
       (IsPage /\ AnalyzeOk(TRUE, inc)) =>
         /\ analysisResult' = "success"
         /\ analyzeReq.img = selectedImage']_vars


\* C40: on the two pages, edit mode is active only while a successful result
\* with its incident is on display; no selection of an image and no new result
\* leaves edit mode on with the buffer of an earlier result.
C40_EditingOnlyOfResult ==
  (IsPage /\ isEditing) =>
    /\ analysisResult = "success"
    /\ incident.present

====
